---- MODULE Spec2Model ----
(***************************************************************************)
(* A model of e_backup.py, the emergency backup script: the command line   *)
(* entry point, backup_database (dump -> compress -> clean), move_files,   *)
(* compress_files and clean_files, over an explicit file system.           *)
(*                                                                         *)
(* Three specifications:                                                   *)
(*   Spec      one operator running the script, possibly several times in  *)
(*             a row with the same command line;                           *)
(*   SpecLib   direct calls of compress_files / clean_files with arbitrary *)
(*             lists of paths;                                             *)
(*   SpecConc  two invocations of the script running at the same time.     *)
(***************************************************************************)
EXTENDS Integers, Sequences, FiniteSets, TLC

VARIABLES
    fs,     \* the file system: absolute path (sequence of names) -> node
    clock,  \* seconds elapsed on the wall clock since the model's first instant
    pc,     \* per process: the place in the script it has reached
    argv,   \* per process: the parsed command line (lines 18-45)
    cwd,    \* per process: the current working directory
    loc,    \* per process: the local variables of the running functions
    log,    \* per process: the calls made on `logger`, in order
    pre,    \* per process: the file system as it was when the invocation began (history)
    runs    \* number of invocations started so far

vars == <<fs, clock, pc, argv, cwd, loc, log, pre, runs>>

-----------------------------------------------------------------------------
(* Bounds of the model *)

MaxRuns == 2      \* invocations of the script in a row
MaxClock == 1     \* seconds the wall clock may advance
MaxFiles == 3     \* length of the path lists handed to compress_files / clean_files

Procs == {1, 2}

-----------------------------------------------------------------------------
(* Paths (os.path), as the pair: is it absolute, and its components *)

Abs(comps) == [abs |-> TRUE, comps |-> comps]
Rel(comps) == [abs |-> FALSE, comps |-> comps]

\* os.path.join(a, b): an absolute b discards a
join(a, b) == IF b.abs THEN b ELSE [abs |-> a.abs, comps |-> a.comps \o b.comps]

\* os.path.basename(p), as a relative one-component path
basename(p) ==
    IF p.comps = <<>> THEN Rel(<<>>) ELSE Rel(<<p.comps[Len(p.comps)]>>)

\* the absolute components the kernel resolves p to, for a process whose
\* working directory is d
resolve(d, p) == IF p.abs THEN p.comps ELSE d \o p.comps

\* os.path.abspath(p)
abspath(d, p) == Abs(resolve(d, p))

-----------------------------------------------------------------------------
(* File contents and the file system *)

\* a plain file holding `text`
Plain(text) == [text |-> text, tar |-> <<>>, eof |-> TRUE]

\* a .tar.bz2 file: the bzip2 stream header, the tar members written so far
\* (each [name, data]) and whether the stream was closed properly
Archive(entries, closed) == [text |-> "BZh9", tar |-> entries, eof |-> closed]

FileNode(data) == [kind |-> "file", data |-> data]
DirNode == [kind |-> "dir", data |-> Plain("")]

exists(f, q) == q \in DOMAIN f
isfile(f, q) == q \in DOMAIN f /\ f[q].kind = "file"
isdir(f, q) == q = <<>> \/ (q \in DOMAIN f /\ f[q].kind = "dir")

IsPrefix(a, b) == Len(a) <= Len(b) /\ SubSeq(b, 1, Len(a)) = a
Parent(q) == SubSeq(q, 1, Len(q) - 1)

\* open(q, 'w') can succeed: the parent is a directory and q is not one
writable(f, q) == q # <<>> /\ isdir(f, Parent(q)) /\ ~isdir(f, q)

\* the file system after q is created or truncated and `data` written to it
WriteFile(f, q, data) ==
    [x \in DOMAIN f \cup {q} |-> IF x = q THEN FileNode(data) ELSE f[x]]

\* os.remove(q)
RemoveFile(f, q) == [x \in DOMAIN f \ {q} |-> f[x]]

\* shutil.rmtree(q)
RemoveTree(f, q) == [x \in {y \in DOMAIN f : ~IsPrefix(q, y)} |-> f[x]]

\* os.listdir(q): the names directly inside q, in the directory's (unspecified) order
Children(f, q) == {x \in DOMAIN f : Len(x) = Len(q) + 1 /\ IsPrefix(q, x)}
Listings(f, q) ==
    LET names == {x[Len(x)] : x \in Children(f, q)}
    IN  {s \in [1..Cardinality(names) -> names] :
            \A i, j \in 1..Cardinality(names) : i # j => s[i] # s[j]}

-----------------------------------------------------------------------------
(* The wall clock and datetime.datetime.now().strftime("%Y%m%d_%H%M%S") *)

\* the second of the day 2024-03-01 at which the model begins (10:15:29)
StartOfDay == (10 * 3600) + (15 * 60) + 29

TwoDigits(n) == IF n < 10 THEN "0" \o ToString(n) ELSE ToString(n)

strftime(t) ==
    LET s == StartOfDay + t
    IN  "20240301_" \o TwoDigits(s \div 3600) \o TwoDigits((s % 3600) \div 60)
                    \o TwoDigits(s % 60)

-----------------------------------------------------------------------------
(* Values of the command line *)

None == <<>>
Some(x) == <<x>>

\* Python's truth value of an optional string: None, False and "" are false
Truthy(o) == o # None /\ o[1] # ""

TmpDir == Abs(<<"tmp">>)                 \* backup_database's default tmp_dir
DumpName == Rel(<<"database_dump.sql">>)
Dot == Rel(<<>>)                         \* "."

Databases == {"orders", "users"}
Reasons == {None, Some(""), Some("prerelease")}
BackupDirs == {Dot, Abs(<<"backups">>), Abs(<<"missing">>)}
OriginDirs == {None, Some(Abs(<<"stage">>))}
WorkDirs == {<<"stage">>, <<"work">>}

\* the namespaces argparse can hand to the script (before the group's check)
Argvs ==
    {[dbs |-> d, move |-> m, backup_dir |-> b, origin_dir |-> o, reason |-> r] :
        d \in {None} \cup {Some(x) : x \in Databases}, m \in BOOLEAN,
        b \in BackupDirs, o \in OriginDirs, r \in Reasons}

\* options that a mode ignores are left at their defaults, so that equal runs
\* are not counted several times
Canonical(a) ==
    /\ (a.dbs = None => a.reason = None)
    /\ (~a.move => a.origin_dir = None)
    /\ (a.dbs = None /\ ~a.move => a.backup_dir = Dot)
    /\ (a.dbs # None /\ a.move => a.backup_dir = Dot /\ a.reason = None
                                   /\ a.origin_dir = None /\ a.dbs = Some("orders"))

NoPath == Rel(<<>>)
BlankLoc ==
    [ctx |-> "", file_name |-> "", files |-> <<>>, dest |-> None,
     full_name |-> NoPath, entries |-> <<>>, idx |-> 0, listing |-> <<>>,
     result |-> NoPath, exc |-> ""]

LogEntry(level, msg, arg) == [level |-> level, msg |-> msg, arg |-> arg]

-----------------------------------------------------------------------------
(* Initial file systems *)

StageNames == {"a.tar.bz2", "b.tar.bz2"}

BaseDirs == {<<"tmp">>, <<"backups">>, <<"stage">>, <<"work">>}

\* the staging directory holds backups to relocate; the directory named work
\* may hold files of the same names with other contents
InitFS(stage, work) ==
    LET files == {<<"stage", n>> : n \in stage} \cup {<<"work", n>> : n \in work}
    IN  [x \in BaseDirs \cup files |->
            IF x \in BaseDirs THEN DirNode
            ELSE FileNode(Plain(x[1] \o ":" \o x[2]))]

InitFSs == {InitFS(s, w) : s \in SUBSET StageNames, w \in SUBSET StageNames}

-----------------------------------------------------------------------------
(* Helpers on the per-process state *)

Log(p, e) == log' = [log EXCEPT ![p] = Append(@, e)]
Goto(p, label) == pc' = [pc EXCEPT ![p] = label]

\* an exception of class `exc` is raised in process p
Raise(p, exc) ==
    /\ pc' = [pc EXCEPT ![p] = "raised"]
    /\ loc' = [loc EXCEPT ![p].exc = exc]

-----------------------------------------------------------------------------
(* Module level, lines 18-45: the command line *)

\* the mutually exclusive, required group of --dbs and --move (lines 19-22):
\* argparse ends the process (status 2) unless exactly one of them is given
\* (mutant) the group is required but not exclusive
GroupAcceptsBoth(a) == a.dbs # None \/ a.move

GroupAccepts(a) == (a.dbs # None) # a.move

ParseArgs(p) ==
    /\ pc[p] = "start"
    /\ Goto(p, IF GroupAccepts(argv[p]) THEN "main" ELSE "usage_exit")
    /\ UNCHANGED <<fs, clock, argv, cwd, loc, log, pre, runs>>

-----------------------------------------------------------------------------
(* __main__, lines 154-164 *)

\* line 155-157: if database: ... try:
MainBackup(p) ==
    /\ pc[p] = "main"
    /\ IF Truthy(argv[p].dbs)
       THEN /\ Log(p, LogEntry("info", "Starting backup for %s", argv[p].dbs))
            /\ Goto(p, "bk_name")
            /\ loc' = [loc EXCEPT ![p].ctx = "try"]
       ELSE /\ Goto(p, "main_move")
            /\ UNCHANGED <<log, loc>>
    /\ UNCHANGED <<fs, clock, argv, cwd, pre, runs>>

\* (mutant) except IOError: any other exception escapes
ExceptIOErrorOnly(p) ==
    /\ pc[p] = "raised"
    /\ loc[p].ctx = "try"
    /\ IF loc[p].exc = "IOError(open)"
       THEN /\ Log(p, LogEntry("error", "Backup failed: %s", <<loc[p].exc>>))
            /\ Goto(p, "main_move")
       ELSE /\ Goto(p, "crashed")
            /\ UNCHANGED log
    /\ loc' = [loc EXCEPT ![p].ctx = ""]
    /\ UNCHANGED <<fs, clock, argv, cwd, pre, runs>>

\* lines 160-161: except Exception as e: logger.error(...)
Except(p) ==
    /\ pc[p] = "raised"
    /\ loc[p].ctx = "try"
    /\ Log(p, LogEntry("error", "Backup failed: %s", <<loc[p].exc>>))
    /\ Goto(p, "main_move")
    /\ loc' = [loc EXCEPT ![p].ctx = ""]
    /\ UNCHANGED <<fs, clock, argv, cwd, pre, runs>>

\* an exception outside the try block ends the process with a traceback
Uncaught(p) ==
    /\ pc[p] = "raised"
    /\ loc[p].ctx # "try"
    /\ Goto(p, "crashed")
    /\ UNCHANGED <<fs, clock, argv, cwd, loc, log, pre, runs>>

\* lines 162-164: if move: ... move_files(origin_dir, backup_dir)
MainMove(p) ==
    /\ pc[p] = "main_move"
    /\ IF argv[p].move
       THEN /\ Log(p, LogEntry("info", "Starting files' move", <<>>))
            /\ Goto(p, "mv_list")
            /\ loc' = [loc EXCEPT ![p].ctx = "move"]
       ELSE /\ Goto(p, "exit")
            /\ UNCHANGED <<log, loc>>
    /\ UNCHANGED <<fs, clock, argv, cwd, pre, runs>>

-----------------------------------------------------------------------------
(* backup_database, lines 104-137, and dump_database, lines 84-101 *)

\* lines 124-130
FileName(db, reason, t) ==
    IF Truthy(reason)
    THEN db \o "_" \o "sql" \o "_" \o reason[1] \o "_" \o strftime(t)
    ELSE db \o "_" \o "sql" \o "_" \o strftime(t)

\* lines 123-131
BuildFileName(p) ==
    /\ pc[p] = "bk_name"
    /\ loc' = [loc EXCEPT ![p].files = <<>>,
                          ![p].file_name = FileName(argv[p].dbs[1], argv[p].reason, clock)]
    /\ Log(p, LogEntry("info", "Dumping database", <<>>))
    /\ Goto(p, "bk_dump")
    /\ UNCHANGED <<fs, clock, argv, cwd, pre, runs>>

\* line 99
DumpPath(dest_folder) == join(dest_folder, DumpName)

\* what pg_dump writes for a database
PgDumpOutput(db) == Plain("dump:" \o db)

\* (mutant) every database is dumped to a file of its own
DumpDatabaseOwnFile(p) ==
    LET dbase == join(TmpDir, Rel(<<argv[p].dbs[1] \o "_dump.sql">>))
        q == resolve(cwd[p], dbase)
    IN  /\ pc[p] = "bk_dump"
        /\ writable(fs, q)
        /\ fs' = WriteFile(fs, q, PgDumpOutput(argv[p].dbs[1]))
        /\ loc' = [loc EXCEPT ![p].files = Append(@, join(TmpDir, dbase)),
                              ![p].dest = Some(argv[p].backup_dir)]
        /\ Log(p, LogEntry("info", "Compressing dump %s", dbase.comps))
        /\ Goto(p, "cf_open")
        /\ UNCHANGED <<clock, argv, cwd, pre, runs>>

\* lines 132-134 with 97-101: pg_dump succeeds and writes the dump file; its
\* path is appended to files and compress_files is called
DumpDatabase(p) ==
    LET dbase == DumpPath(TmpDir)
        q == resolve(cwd[p], dbase)
    IN  /\ pc[p] = "bk_dump"
        /\ writable(fs, q)
        /\ fs' = WriteFile(fs, q, PgDumpOutput(argv[p].dbs[1]))
        /\ loc' = [loc EXCEPT ![p].files = Append(@, join(TmpDir, dbase)),
                              ![p].dest = Some(argv[p].backup_dir)]
        /\ log' = [log EXCEPT ![p] = @ \o
                     <<LogEntry("debug", "Dumping database %s into %s folder",
                                <<argv[p].dbs[1]>>),
                       LogEntry("info", "Compressing dump %s", dbase.comps)>>]
        /\ Goto(p, "cf_open")
        /\ UNCHANGED <<clock, argv, cwd, pre, runs>>

\* line 100: pg_dump exits non-zero (unknown database, no server, output not
\* writable ...); it may or may not have created an empty output file first
DumpDatabaseFail(p) ==
    LET q == resolve(cwd[p], DumpPath(TmpDir))
    IN  /\ pc[p] = "bk_dump"
        /\ \E created \in BOOLEAN :
             fs' = IF created /\ writable(fs, q) THEN WriteFile(fs, q, Plain("")) ELSE fs
        /\ Raise(p, "ErrorReturnCode")
        /\ Log(p, LogEntry("debug", "Dumping database %s into %s folder",
                           <<argv[p].dbs[1]>>))
        /\ UNCHANGED <<clock, argv, cwd, pre, runs>>

\* line 137 and, back in __main__, line 159
BackupReturn(p) ==
    LET db_name == abspath(cwd[p], loc[p].full_name)
    IN  /\ pc[p] = "bk_ret"
        /\ loc' = [loc EXCEPT ![p].result = db_name, ![p].ctx = ""]
        /\ Log(p, LogEntry("info", "Backup complete. Available in: %s", db_name.comps))
        /\ Goto(p, "main_move")
        /\ UNCHANGED <<fs, clock, argv, cwd, pre, runs>>

-----------------------------------------------------------------------------
(* compress_files, lines 61-81 *)

\* lines 70-71 and 74
FullName(name, dest_folder) ==
    join(IF dest_folder = None THEN Dot ELSE dest_folder[1],
         Rel(<<name \o ".tar.bz2">>))

\* (mutant) the member is stored under its base name alone
ArcNameFlat(name, fname) == basename(fname)

\* line 79: the member name given to tar.add
ArcName(name, fname) == join(Rel(<<name>>), basename(fname))

\* an enumeration of a finite set of paths in which a directory comes before
\* what it holds (tarfile adds a directory, then its sorted children)
TopDown(S) ==
    CHOOSE s \in [1..Cardinality(S) -> S] :
        /\ \A i, j \in 1..Cardinality(S) : i # j => s[i] # s[j]
        /\ \A i, j \in 1..Cardinality(S) : IsPrefix(s[i], s[j]) => i <= j

\* tarfile.add(q, arcname): one member for a file; for a directory, a member
\* for it and for everything below it
Members(f, q, arcname) ==
    LET below == {x \in DOMAIN f : IsPrefix(q, x)}
        order == TopDown(below)
    IN  [i \in 1..Cardinality(below) |->
            [name |-> arcname \o SubSeq(order[i], Len(q) + 1, Len(order[i])),
             kind |-> f[order[i]].kind,
             data |-> f[order[i]].data]]

\* lines 70-75: bz2.BZ2File(full_name, mode='w') creates or truncates the file
CompressOpen(p) ==
    LET full_name == FullName(loc[p].file_name, loc[p].dest)
        q == resolve(cwd[p], full_name)
    IN  /\ pc[p] = "cf_open"
        /\ writable(fs, q)
        /\ fs' = WriteFile(fs, q, Archive(<<>>, FALSE))
        /\ loc' = [loc EXCEPT ![p].full_name = full_name, ![p].entries = <<>>,
                              ![p].idx = 1]
        /\ Log(p, LogEntry("debug", "Generating compressed file: %s in %s folder",
                           <<loc[p].file_name>>))
        /\ Goto(p, "cf_add")
        /\ UNCHANGED <<clock, argv, cwd, pre, runs>>

\* line 75 raises IOError: the destination folder is missing, or the name is
\* a directory's
CompressOpenFail(p) ==
    LET full_name == FullName(loc[p].file_name, loc[p].dest)
        q == resolve(cwd[p], full_name)
    IN  /\ pc[p] = "cf_open"
        /\ ~writable(fs, q)
        /\ pc' = [pc EXCEPT ![p] = "raised"]
        /\ loc' = [loc EXCEPT ![p].full_name = full_name, ![p].exc = "IOError(open)"]
        /\ Log(p, LogEntry("debug", "Generating compressed file: %s in %s folder",
                           <<loc[p].file_name>>))
        /\ UNCHANGED <<fs, clock, argv, cwd, pre, runs>>

\* lines 77-79, one turn of the loop: tar.add reads the input into the tar
\* stream, or raises OSError when nothing has that name. The with block then
\* closes the tar object, bz2_file is never closed and the file stays as it
\* was opened
CompressAdd(p) ==
    LET fname == loc[p].files[loc[p].idx]
        q == resolve(cwd[p], fname)
    IN  /\ pc[p] = "cf_add"
        /\ loc[p].idx <= Len(loc[p].files)
        /\ IF exists(fs, q)
           THEN /\ loc' = [loc EXCEPT
                     ![p].entries = @ \o Members(fs, q, ArcName(loc[p].file_name, fname).comps),
                     ![p].idx = @ + 1]
                /\ UNCHANGED pc
           ELSE Raise(p, "OSError(lstat)")
        /\ UNCHANGED <<fs, clock, argv, cwd, log, pre, runs>>

\* the end of the with block (line 76) and lines 80-81: the stream is
\* completed and flushed, full_name is returned to the caller
CompressClose(p) ==
    LET q == resolve(cwd[p], loc[p].full_name)
    IN  /\ pc[p] = "cf_add"
        /\ loc[p].idx > Len(loc[p].files)
        /\ fs' = IF isfile(fs, q)
                 THEN WriteFile(fs, q, Archive(loc[p].entries, TRUE))
                 ELSE fs
        /\ IF loc[p].ctx = "try"
           THEN /\ Goto(p, "clean")         \* line 136: clean_files(files)
                /\ loc' = [loc EXCEPT ![p].idx = 1]
           ELSE /\ Goto(p, "returned")
                /\ loc' = [loc EXCEPT ![p].result = loc[p].full_name]
        /\ UNCHANGED <<clock, argv, cwd, log, pre, runs>>

-----------------------------------------------------------------------------
(* clean_files, lines 48-58 *)

\* (mutant) only directories are removed
CleanBranchDirsOnly(f, q) == IF isdir(f, q) THEN "rmtree" ELSE "skip"

\* (mutant) os.remove is called without the isfile test
CleanBranchNoTest(f, q) == IF isdir(f, q) THEN "rmtree" ELSE "remove"

\* lines 55 and 57: what is done with one path
CleanBranch(f, q) ==
    IF isfile(f, q) THEN "remove"
    ELSE IF isdir(f, q) THEN "rmtree"
    ELSE "skip"

\* os.remove(q) and shutil.rmtree(q) raise OSError on anything else than a
\* file, respectively a directory
CanDo(branch, f, q) ==
    /\ branch = "remove" => isfile(f, q)
    /\ branch = "rmtree" => isdir(f, q)

\* one turn of the loop at line 54
CleanStep(p) ==
    LET q == resolve(cwd[p], loc[p].files[loc[p].idx])
        branch == CleanBranch(fs, q)
    IN  /\ pc[p] = "clean"
        /\ loc[p].idx <= Len(loc[p].files)
        /\ IF CanDo(branch, fs, q)
           THEN /\ fs' = CASE branch = "remove" -> RemoveFile(fs, q)
                           [] branch = "rmtree" -> RemoveTree(fs, q)
                           [] OTHER -> fs
                /\ loc' = [loc EXCEPT ![p].idx = @ + 1]
                /\ UNCHANGED pc
           ELSE /\ Raise(p, "OSError(remove)")
                /\ UNCHANGED fs
        /\ UNCHANGED <<clock, argv, cwd, log, pre, runs>>

\* lines 56 and 58 raise OSError on something that exists: the operating
\* system denies the removal
CleanFail(p) ==
    /\ pc[p] = "clean"
    /\ loc[p].idx <= Len(loc[p].files)
    /\ exists(fs, resolve(cwd[p], loc[p].files[loc[p].idx]))
    /\ Raise(p, "OSError(denied)")
    /\ UNCHANGED <<fs, clock, argv, cwd, log, pre, runs>>

\* the loop is over: back in backup_database, or in the direct caller
CleanReturn(p) ==
    /\ pc[p] = "clean"
    /\ loc[p].idx > Len(loc[p].files)
    /\ Goto(p, IF loc[p].ctx = "try" THEN "bk_ret" ELSE "returned")
    /\ UNCHANGED <<fs, clock, argv, cwd, loc, log, pre, runs>>

-----------------------------------------------------------------------------
(* move_files, lines 140-151 *)

\* the directory os.listdir(from_dir) lists; os.listdir(None) lists "."
FromDir(p) ==
    resolve(cwd[p], IF argv[p].origin_dir = None THEN Dot ELSE argv[p].origin_dir[1])

\* lines 147 and 150 hand the loop the bare names os.listdir returns
Each(p) == Rel(<<loc[p].listing[loc[p].idx]>>)

\* line 149: the file shutil.copy(each, lfile) reads
CopySource(p) == resolve(cwd[p], Each(p))

\* lines 148-149: the file shutil.copy writes (inside lfile when it is a directory)
CopyTarget(p) ==
    LET lfile == join(argv[p].backup_dir, basename(Each(p)))
        q == resolve(cwd[p], lfile)
    IN  IF isdir(fs, q) THEN q \o basename(Each(p)).comps ELSE q

\* shutil.copy succeeds: a regular source, a writable target, not the same file
CanCopy(p) ==
    /\ isfile(fs, CopySource(p))
    /\ writable(fs, CopyTarget(p))
    /\ CopySource(p) # CopyTarget(p)

\* line 151: the file os.remove(each) removes
RemoveTarget(p) == resolve(cwd[p], Each(p))

\* line 147: the first os.listdir
MoveList(p) ==
    /\ pc[p] = "mv_list"
    /\ isdir(fs, FromDir(p))
    /\ \E l \in Listings(fs, FromDir(p)) :
         loc' = [loc EXCEPT ![p].listing = l, ![p].idx = 1]
    /\ Goto(p, "mv_copy")
    /\ UNCHANGED <<fs, clock, argv, cwd, log, pre, runs>>

\* line 147 raises: from_dir is no directory (OSError), or it is None and the
\* interpreter is Python 2 (TypeError)
MoveListFail(p) ==
    /\ pc[p] = "mv_list"
    /\ \/ ~isdir(fs, FromDir(p)) /\ Raise(p, "OSError(listdir)")
       \/ argv[p].origin_dir = None /\ Raise(p, "TypeError")
    /\ UNCHANGED <<fs, clock, argv, cwd, log, pre, runs>>

\* lines 148-149, one turn of the first loop
MoveCopy(p) ==
    /\ pc[p] = "mv_copy"
    /\ loc[p].idx <= Len(loc[p].listing)
    /\ CanCopy(p)
    /\ fs' = WriteFile(fs, CopyTarget(p), fs[CopySource(p)].data)
    /\ loc' = [loc EXCEPT ![p].idx = @ + 1]
    /\ UNCHANGED <<clock, pc, argv, cwd, log, pre, runs>>

\* line 149 raises (IOError, shutil.Error)
MoveCopyFail(p) ==
    /\ pc[p] = "mv_copy"
    /\ loc[p].idx <= Len(loc[p].listing)
    /\ ~CanCopy(p)
    /\ Raise(p, "IOError(copy)")
    /\ UNCHANGED <<fs, clock, argv, cwd, log, pre, runs>>

\* line 150: the second os.listdir, once the first loop is over
MoveRelist(p) ==
    /\ pc[p] = "mv_copy"
    /\ loc[p].idx > Len(loc[p].listing)
    /\ \E l \in Listings(fs, FromDir(p)) :
         loc' = [loc EXCEPT ![p].listing = l, ![p].idx = 1]
    /\ Goto(p, "mv_remove")
    /\ UNCHANGED <<fs, clock, argv, cwd, log, pre, runs>>

\* line 151, one turn of the second loop: os.remove removes the file, or
\* raises OSError when no file has that name
MoveRemove(p) ==
    /\ pc[p] = "mv_remove"
    /\ loc[p].idx <= Len(loc[p].listing)
    /\ IF isfile(fs, RemoveTarget(p))
       THEN /\ fs' = RemoveFile(fs, RemoveTarget(p))
            /\ loc' = [loc EXCEPT ![p].idx = @ + 1]
            /\ UNCHANGED pc
       ELSE /\ Raise(p, "OSError(remove)")
            /\ UNCHANGED fs
    /\ UNCHANGED <<clock, argv, cwd, log, pre, runs>>

\* move_files returns and the script ends
MoveReturn(p) ==
    /\ pc[p] = "mv_remove"
    /\ loc[p].idx > Len(loc[p].listing)
    /\ Goto(p, "exit")
    /\ UNCHANGED <<fs, clock, argv, cwd, loc, log, pre, runs>>

-----------------------------------------------------------------------------
(* The environment *)

\* a second passes
Tick ==
    /\ clock < MaxClock
    /\ clock' = clock + 1
    /\ UNCHANGED <<fs, pc, argv, cwd, loc, log, pre, runs>>

Ended(p) == pc[p] \in {"exit", "usage_exit", "crashed"}

\* the operator runs the same command line again, in the same directory
Rerun(p) ==
    /\ Ended(p)
    /\ runs < MaxRuns
    /\ runs' = runs + 1
    /\ Goto(p, "start")
    /\ loc' = [loc EXCEPT ![p] = BlankLoc]
    /\ pre' = [pre EXCEPT ![p] = fs]
    /\ UNCHANGED <<fs, clock, argv, cwd, log>>

-----------------------------------------------------------------------------
(* Spec: one operator, one invocation at a time *)

Idle == [dbs |-> None, move |-> FALSE, backup_dir |-> Dot, origin_dir |-> None,
         reason |-> None]

Init ==
    /\ fs \in InitFSs
    /\ clock = 0
    /\ runs = 1
    /\ \E a \in {x \in Argvs : Canonical(x)} : argv = [p \in Procs |-> IF p = 1 THEN a ELSE Idle]
    /\ \E d \in WorkDirs : cwd = [p \in Procs |-> d]
    /\ pc = [p \in Procs |-> IF p = 1 THEN "start" ELSE "off"]
    /\ loc = [p \in Procs |-> BlankLoc]
    /\ log = [p \in Procs |-> <<>>]
    /\ pre = [p \in Procs |-> fs]

Backup(p) ==
    \/ BuildFileName(p) \/ DumpDatabase(p) \/ DumpDatabaseFail(p)
    \/ CompressOpen(p) \/ CompressOpenFail(p)
    \/ CompressAdd(p) \/ CompressClose(p)
    \/ CleanStep(p) \/ CleanFail(p) \/ CleanReturn(p)
    \/ BackupReturn(p)

Move(p) ==
    \/ MoveList(p) \/ MoveListFail(p)
    \/ MoveCopy(p) \/ MoveCopyFail(p) \/ MoveRelist(p)
    \/ MoveRemove(p) \/ MoveReturn(p)

Script(p) ==
    \/ ParseArgs(p) \/ MainBackup(p) \/ Except(p) \/ Uncaught(p) \/ MainMove(p)
    \/ Backup(p) \/ Move(p)

Next == Script(1) \/ Rerun(1) \/ Tick

Spec == Init /\ [][Next]_vars

-----------------------------------------------------------------------------
(* SpecLib: compress_files and clean_files called directly *)

LibDirs == {<<"a">>, <<"b">>, <<"out">>, <<"a", "sub">>}
LibFiles == {<<"a", "x.sql">>, <<"b", "x.sql">>, <<"a", "y.sql">>, <<"a", "sub", "z.sql">>}

LibFS ==
    [x \in LibDirs \cup LibFiles |->
        IF x \in LibDirs THEN DirNode
        ELSE FileNode(Plain(x[1] \o ":" \o x[Len(x)]))]

\* the paths a caller may list: files in two directories (two of them with
\* the same base name), a path relative to the working directory, a
\* directory, a file below it, and a name nothing has
LibPaths ==
    {Abs(<<"a", "x.sql">>), Abs(<<"b", "x.sql">>), Rel(<<"y.sql">>),
     Abs(<<"a", "sub">>), Abs(<<"a", "sub", "z.sql">>), Abs(<<"b", "nothing">>)}

PathLists == UNION {[1..n -> LibPaths] : n \in 0..MaxFiles}

LibDests == {None, Some(Abs(<<"out">>)), Some(Abs(<<"missing">>))}

InitLib ==
    /\ fs = LibFS
    /\ clock = 0
    /\ runs = 1
    /\ argv = [p \in Procs |-> Idle]
    /\ cwd = [p \in Procs |-> <<"a">>]
    /\ \E fn \in {"compress_files", "clean_files"}, l \in PathLists, d \in LibDests :
         /\ fn = "clean_files" => d = None
         /\ pc = [p \in Procs |->
                    IF p # 1 THEN "off"
                    ELSE IF fn = "compress_files" THEN "cf_open" ELSE "clean"]
         /\ loc = [p \in Procs |->
                    IF p # 1 THEN BlankLoc
                    ELSE [BlankLoc EXCEPT !.ctx = fn, !.files = l, !.dest = d,
                                           !.file_name = "bundle", !.idx = 1]]
    /\ log = [p \in Procs |-> <<>>]
    /\ pre = [p \in Procs |-> fs]

NextLib ==
    \/ CompressOpen(1) \/ CompressOpenFail(1) \/ CompressAdd(1) \/ CompressClose(1)
    \/ CleanStep(1) \/ CleanFail(1) \/ CleanReturn(1)
    \/ Uncaught(1)

SpecLib == InitLib /\ [][NextLib]_vars

-----------------------------------------------------------------------------
(* SpecConc: two invocations of the script at the same time, one per database,
   started in the same directory *)

ConcArgv(db, dir) ==
    [dbs |-> Some(db), move |-> FALSE, backup_dir |-> dir, origin_dir |-> None,
     reason |-> None]

InitConc ==
    /\ fs = InitFS({}, {})
    /\ clock = 0
    /\ runs = 2
    /\ \E d \in {Abs(<<"backups">>), Abs(<<"missing">>)} :
         argv = [p \in Procs |-> ConcArgv(IF p = 1 THEN "orders" ELSE "users", d)]
    /\ cwd = [p \in Procs |-> <<"work">>]
    /\ pc = [p \in Procs |-> "start"]
    /\ loc = [p \in Procs |-> BlankLoc]
    /\ log = [p \in Procs |-> <<>>]
    /\ pre = [p \in Procs |-> fs]

NextConc ==
    \/ \E p \in Procs :
         ParseArgs(p) \/ MainBackup(p) \/ Except(p) \/ MainMove(p) \/ Backup(p)
    \/ Tick

SpecConc == InitConc /\ [][NextConc]_vars

-----------------------------------------------------------------------------
(* Properties of one invocation of the script (Spec) *)

Last(s) == s[Len(s)]

\* the directory --backup-dir names, and the dump file's place
DestDir(p) == resolve(cwd[p], argv[p].backup_dir)
DumpFile == <<"tmp", "database_dump.sql">>

\* nothing directly inside directory d differs between file systems f and g
SameInside(f, g, d) ==
    /\ Children(f, d) = Children(g, d)
    /\ \A x \in Children(f, d) : f[x] = g[x]

ErrorLogged(exc) == LogEntry("error", "Backup failed: %s", <<exc>>)

\* pg_dump failed in p's current invocation
DumpStepFailed(p) == loc[p].exc = "ErrorReturnCode"

\* p's current invocation ran backup_database to its return
Succeeded(p) == argv[p].dbs # None /\ loc[p].result # NoPath

\* C2: when the dump step fails, nothing is created (or changed) in the
\* destination directory, the exception never leaves the script (the process
\* does not crash) and, once handled, the last thing logged is the failure,
\* at error severity.
C2_DumpFailureCaught ==
    \A p \in Procs :
        DumpStepFailed(p) =>
            /\ pc[p] \in {"raised", "main_move", "exit"}
            /\ SameInside(fs, pre[p], DestDir(p))
            /\ pc[p] # "raised" => Last(log[p]) = ErrorLogged("ErrorReturnCode")

C2_Witness ==
    /\ DumpStepFailed(1)
    /\ pc[1] = "exit"
    /\ isdir(fs, DestDir(1))

\* the timestamps of the model's first seconds, 10:15:29 onwards
ExpectedStamp(t) ==
    <<"20240301_101529", "20240301_101530", "20240301_101531", "20240301_101532">>[t + 1]

C8_DumpRemovedOnlyOnSuccess ==
    \A p \in Procs :
        /\ Succeeded(p) => ~exists(fs, DumpFile)
        /\ (argv[p].dbs # None /\ loc[p].files # <<>>
              /\ loc[p].exc \in {"IOError(open)", "OSError(lstat)"})
           => /\ isfile(fs, DumpFile)
              /\ fs[DumpFile].data = Plain("dump:" \o argv[p].dbs[1])
        /\ (argv[p].dbs # None /\ loc[p].exc # ""
              /\ (loc[p].files # <<>> \/ exists(pre[p], DumpFile)))
           => isfile(fs, DumpFile)

C8_Witness ==
    /\ argv[1].dbs # None
    /\ loc[1].files # <<>>
    /\ loc[1].exc = "IOError(open)"
    /\ pc[1] = "exit"

RequestsBoth(p) == argv[p].dbs # None /\ argv[p].move
MoveStarted(p) == \E i \in 1..Len(log[p]) : log[p][i].msg = "Starting files' move"
BackupFaulted(p) == argv[p].dbs # None /\ loc[p].exc # ""

\* C6 as stated: an invocation that requests both a backup and a relocation
\* is not aborted and executes the relocation step before it ends.
C6_Original ==
    \A p \in Procs :
        RequestsBoth(p) /\ Ended(p) => pc[p] = "exit" /\ MoveStarted(p)

\* C6, amended: a fault at any step of a requested backup is caught and
\* logged at error severity and does not abort the process; no relocation
\* follows, as --dbs and --move exclude each other: an invocation that gives
\* both is rejected before anything runs.
C6_FaultCaughtAndModesExclusive ==
    \A p \in Procs :
        /\ RequestsBoth(p) =>
              /\ pc[p] \in {"start", "usage_exit"}
              /\ log[p] = <<>>
              /\ fs = pre[p]
        /\ BackupFaulted(p) =>
              /\ pc[p] \in {"raised", "main_move", "exit"}
              /\ ~MoveStarted(p)
              /\ pc[p] # "raised" => Last(log[p]) = ErrorLogged(loc[p].exc)

C6_Witness ==
    /\ BackupFaulted(1)
    /\ loc[1].exc = "OSError(denied)"
    /\ pc[1] = "exit"

\* the names directly inside origin when p's invocation began
OriginNames(p) == {x[Len(x)] : x \in Children(pre[p], FromDir(p))}

\* C1 as stated: after move_files returns, destination holds a
\* content-identical file for every name origin held, and origin none of them.
C1_Original ==
    \A p \in Procs :
        (argv[p].move /\ pc[p] = "exit") =>
            \A n \in OriginNames(p) :
                /\ isfile(fs, DestDir(p) \o <<n>>)
                /\ fs[DestDir(p) \o <<n>>].data = pre[p][FromDir(p) \o <<n>>].data
                /\ ~exists(fs, FromDir(p) \o <<n>>)

\* C9 as stated: when a copy faults in the first pass, every origin entry is
\* still present, and destination holds copies of the entries processed
\* before the fault and is otherwise as it was.
C9_Original ==
    \A p \in Procs :
        loc[p].exc = "IOError(copy)" =>
            LET copied == {loc[p].listing[i] : i \in 1..(loc[p].idx - 1)}
            IN  /\ \A n \in OriginNames(p) :
                      /\ exists(fs, FromDir(p) \o <<n>>)
                      /\ fs[FromDir(p) \o <<n>>] = pre[p][FromDir(p) \o <<n>>]
                /\ \A n \in copied :
                      /\ isfile(fs, DestDir(p) \o <<n>>)
                      /\ fs[DestDir(p) \o <<n>>].data = pre[p][FromDir(p) \o <<n>>].data
                /\ \A x \in Children(fs, DestDir(p)) \cup Children(pre[p], DestDir(p)) :
                      x[Len(x)] \notin copied =>
                          /\ x \in DOMAIN fs /\ x \in DOMAIN pre[p]
                          /\ fs[x] = pre[p][x]

\* the archive paths the successful runs of p returned, in order
Returned(p) ==
    SelectSeq(log[p], LAMBDA e : e.msg = "Backup complete. Available in: %s")

\* C5 as stated: two successful backup runs never return the same archive path.
C5_Original ==
    \A p \in Procs :
        \A i, j \in 1..Len(Returned(p)) :
            i < j => Returned(p)[i].arg # Returned(p)[j].arg

-----------------------------------------------------------------------------
(* Properties of compress_files and clean_files called directly (SpecLib) *)

\* what extracting a tar stream leaves: member name -> node, a later member
\* of the same name replacing an earlier one
Extract(tar) ==
    [n \in {tar[i].name : i \in 1..Len(tar)} |->
        LET last == CHOOSE i \in 1..Len(tar) :
                        tar[i].name = n /\ \A j \in (i + 1)..Len(tar) : tar[j].name # n
        IN  [kind |-> tar[last].kind, data |-> tar[last].data]]

\* the absolute paths p's caller listed
Listed(p) == {resolve(cwd[p], loc[p].files[i]) : i \in 1..Len(loc[p].files)}

\* C4 as stated: for any list of regular files, extracting the archive
\* compress_files returns yields, for every input, a file identical to it at
\* <name>/<base name of the input>, and nothing else.
C4_Original ==
    \A p \in Procs :
        (loc[p].ctx = "compress_files" /\ pc[p] = "returned"
           /\ \A q \in Listed(p) : isfile(pre[p], q))
        => LET archive == fs[resolve(cwd[p], loc[p].result)].data
               out == Extract(archive.tar)
           IN  /\ archive.eof
               /\ \A q \in Listed(p) :
                     /\ <<loc[p].file_name, q[Len(q)]>> \in DOMAIN out
                     /\ out[<<loc[p].file_name, q[Len(q)]>>] = pre[p][q]
               /\ DOMAIN out = {<<loc[p].file_name, q[Len(q)]>> : q \in Listed(p)}

\* x is a listed file, or a listed directory or something below one
ToRemove(p, x) ==
    \E q \in Listed(p) :
        \/ isfile(pre[p], q) /\ x = q
        \/ isdir(pre[p], q) /\ IsPrefix(q, x)

\* C7: clean_files removes every listed file and every listed directory
\* tree, leaves everything else as it was, and raises nothing for a path
\* that does not exist (a fault can only be the operating system's refusal to
\* remove something that exists).
C7_CleanRemovesExactlyListed ==
    \A p \in Procs :
        loc[p].ctx = "clean_files" =>
            /\ DOMAIN fs \subseteq DOMAIN pre[p]
            /\ \A x \in DOMAIN pre[p] :
                  ~ToRemove(p, x) => x \in DOMAIN fs /\ fs[x] = pre[p][x]
            /\ pc[p] = "returned" => \A x \in DOMAIN pre[p] : ToRemove(p, x) => x \notin DOMAIN fs
            /\ loc[p].exc # "" =>
                  /\ loc[p].exc = "OSError(denied)"
                  /\ exists(fs, resolve(cwd[p], loc[p].files[loc[p].idx]))

\* a list mixing a file, a directory and a name nothing has was cleaned
C7_Witness ==
    /\ loc[1].ctx = "clean_files"
    /\ pc[1] = "returned"
    /\ \E q \in Listed(1) : isfile(pre[1], q)
    /\ \E q \in Listed(1) : q # <<>> /\ isdir(pre[1], q)
    /\ \E q \in Listed(1) : ~exists(pre[1], q)

-----------------------------------------------------------------------------
(* Properties of two invocations at the same time (SpecConc) *)

\* C10: the two invocations use the same dump path, with no lock; a completed
\* archive holds one member, which is whatever that shared file held when it
\* was read: the dump of either database, or the empty file of a failed
\* pg_dump. (C10_Witness is the interleaving in which it is the other's.)
C10_DumpPathShared ==
    /\ \A p, q \in Procs :
          (loc[p].files # <<>> /\ loc[q].files # <<>>)
          => resolve(cwd[p], loc[p].files[1]) = resolve(cwd[q], loc[q].files[1])
    /\ \A p \in Procs :
          Succeeded(p) =>
              LET archive == fs[loc[p].result.comps].data
              IN  /\ archive.eof
                  /\ Len(archive.tar) = 1
                  /\ archive.tar[1].data \in
                       {Plain("dump:" \o argv[q].dbs[1]) : q \in Procs} \cup {Plain("")}

\* invocation 1 archived the dump of invocation 2's database, and invocation
\* 2 found its dump file already removed by invocation 1's cleanup
C10_Witness ==
    /\ Succeeded(1)
    /\ fs[loc[1].result.comps].data.tar[1].data = Plain("dump:" \o argv[2].dbs[1])
    /\ loc[2].files # <<>>
    /\ loc[2].exc = "OSError(lstat)"

====
